---------------------------- MODULE Spec2Model ----------------------------
(***************************************************************************)
(* A model of the Sphincs+ parameter set search (search.c, gamma.c).       *)
(*                                                                         *)
(* The program is one batch run of do_search.  Its parts are modelled as   *)
(* state machines over one set of variables:                                *)
(*   SpecSort    my_sort: the bucket merge sort of one class sequence      *)
(*   SpecSelect  the selection loop of do_search that builds the frontier  *)
(*   SpecSigs    compute_sigs_at_sec_level: the two linear scans           *)
(*   SpecEnum    the five nested enumeration loops of do_search            *)
(*   SpecGraph   the loop of do_search that writes one overuse graph       *)
(*   SpecSeries  compute_sec_level and check_sec_level: the series         *)
(*   SpecIndex   compute_sec_level: the index of the series                *)
(*   SpecOwn     do_search and my_sort on the allocated objects            *)
(* A specification leaves the variables of the other parts at their idle   *)
(* values.                                                                 *)
(***************************************************************************)
EXTENDS Integers, Sequences, FiniteSets, TLC

VARIABLES
    pc,             \* the position of the running part
    \* ---- my_sort
    num_bin,        \* the number of bins the sort runs with (NUM_BIN)
    input,          \* the list my_sort was called with (kept for the claims)
    list,           \* the part of the input not yet inserted
    bins,           \* bins[i], i in 0..num_bin-1: a sorted run, <<>> is NULL
    sorted,         \* the list my_sort returns
    \* ---- do_search: the class sequences and the selection loop
    max_s,          \* the stop threshold (0: none)
    w16_q,          \* the W=16 parameter sets
    w256_q,         \* the W=4 and W=256 parameter sets
    wother_q,       \* the parameter sets of every other W
    print_list,     \* the parameter sets selected for output, in order
    min_sec_level,  \* per class, the highest overuse value listed so far
    cutoff,         \* per class, whether listing has stopped
    freed,          \* the parameter sets released by free(), in order
    \* ---- compute_sigs_at_sec_level
    test_sec_level, \* the security level asked for (its sec_level argument)
    cross,          \* the estimator: where it falls below test_sec_level
    lower,          \* the integer part found by the first scan
    fract,          \* the hundredths found by the second scan
    sigs,           \* the value returned
    \* ---- do_search: its arguments and the enumeration loops
    sec_level, num_sig, sign_op,
    d_restrict, h_restrict, a_restrict,
    sec_rule,       \* which verdicts check_sec_level gives in this run
    w, h_merkle, h, d, a, k,
    \* ---- do_search: the overuse graph of one listed parameter set
    est_vals,       \* the estimator: its values on three stretches of x
    est_knees,      \* the estimator: where the stretches meet
    csv_x,          \* x, the number of signatures (log2) in hundredths
    csv_file,       \* the lines written to the file, in order
    \* ---- compute_sec_level and check_sec_level: the series
    log_lambda,     \* m - H, the log2 of lambda
    ser_T,          \* T, the height of a FORS tree
    ser_K,          \* K, the number of FORS trees
    ser_level,      \* the sec_level argument of check_sec_level
    exp_lambda,     \* exp(lambda)
    ser_g,          \* g, the index of the term
    ser_a,          \* 2^log_a, that is lambda^g / g!
    prob_not_get_g_hit,
    ser_sum,        \* 2^log_sum, the running sum
    ser_check,      \* what check_sec_level returned, once it has
    check_g,        \* the g check_sec_level returned at
    ser_hist,       \* the results for the values of m already done
    \* ---- compute_sec_level: the index g at large lambda
    g_pow,          \* g = 2^g_pow
    \* ---- do_search and my_sort on the parameter sets as allocated objects
    cand,           \* the objects malloc returned: their fields but link
    link,           \* the link field of each object, 0 is NULL
    ptr,            \* the pointer variables of do_search and my_sort
    released,       \* the objects passed to free()
    stray           \* whether a field of a released object was read or written

sortVars == <<num_bin, input, list, bins, sorted>>
queueVars == <<w16_q, w256_q, wother_q>>
selVars == <<max_s, print_list, min_sec_level, cutoff, freed>>
sigsVars == <<test_sec_level, cross, lower, fract, sigs>>
argVars == <<sec_level, num_sig, sign_op, d_restrict, h_restrict, a_restrict,
             sec_rule>>
loopVars == <<w, h_merkle, h, d, a, k>>
graphVars == <<est_vals, est_knees, csv_x, csv_file>>
seriesVars == <<log_lambda, ser_T, ser_K, ser_level, exp_lambda, ser_g, ser_a,
                prob_not_get_g_hit, ser_sum, ser_check, check_g, ser_hist>>
indexVars == <<g_pow>>
heapVars == <<cand, link, ptr, released, stray>>

vars == <<pc, sortVars, queueVars, selVars, sigsVars, argVars, loopVars,
          graphVars, seriesVars, indexVars, heapVars>>

\* What each part leaves alone.
notSort == <<queueVars, selVars, sigsVars, argVars, loopVars, graphVars,
            seriesVars, indexVars, heapVars>>
notSelect == <<sortVars, sigsVars, argVars, loopVars, graphVars, seriesVars,
              indexVars, heapVars>>
notSigs == <<sortVars, queueVars, selVars, argVars, loopVars, graphVars,
            seriesVars, indexVars, heapVars>>
notEnum == <<sortVars, selVars, sigsVars, graphVars, seriesVars, indexVars, heapVars>>
notGraph == <<sortVars, queueVars, selVars, sigsVars, argVars, loopVars,
             seriesVars, indexVars, heapVars>>
notSeries == <<sortVars, queueVars, selVars, sigsVars, argVars, loopVars,
              graphVars, indexVars, heapVars>>
notIndex == <<sortVars, queueVars, selVars, sigsVars, argVars, loopVars,
             graphVars, seriesVars, heapVars>>

\* ------------------------------------------------------------------------
\* Bounds of the model
\* ------------------------------------------------------------------------

\* The longest list handed to my_sort.
MaxLen == 5
\* The largest value of a sort key (sig_size, sig_time, ver_time).
MaxKey == 2
\* The small bin count my_sort is also run with, so that lists of more
\* than 2^num_bin elements happen.
SmallBins == 2
\* The selection loop: the largest signature size, the spacing of the
\* overuse values (in hundredths), the largest stop threshold, and the most
\* parameter sets on the three sequences together.
MaxSize == 2
OvStep == 100
MaxStop == 2
MaxTotal == 3

\* ------------------------------------------------------------------------
\* The idle values of each part's variables
\* ------------------------------------------------------------------------

IdleSort ==
    /\ num_bin = 0
    /\ input = <<>>
    /\ list = <<>>
    /\ bins = <<>>
    /\ sorted = <<>>

IdleQueues ==
    /\ w16_q = <<>>
    /\ w256_q = <<>>
    /\ wother_q = <<>>

IdleSelect ==
    /\ max_s = 0
    /\ print_list = <<>>
    /\ min_sec_level = <<>>
    /\ cutoff = <<>>
    /\ freed = <<>>

IdleSigs ==
    /\ test_sec_level = 0
    /\ cross = 0
    /\ lower = 0
    /\ fract = 0
    /\ sigs = 0

IdleEnum ==
    /\ sec_level = 0 /\ num_sig = 0 /\ sign_op = 0
    /\ d_restrict = 0 /\ h_restrict = 0 /\ a_restrict = 0
    /\ sec_rule = 0
    /\ w = 0 /\ h_merkle = 0 /\ h = 0 /\ d = 0 /\ a = 0 /\ k = 0

IdleGraph ==
    /\ est_vals = <<>>
    /\ est_knees = <<>>
    /\ csv_x = 0
    /\ csv_file = <<>>

IdleIndex == g_pow = 0

IdleHeap ==
    /\ cand = <<>>
    /\ link = <<>>
    /\ ptr = <<>>
    /\ released = {}
    /\ stray = FALSE

IdleSeries ==
    /\ log_lambda = 0 /\ ser_T = 0 /\ ser_K = 0 /\ ser_level = 0
    /\ exp_lambda = <<>> /\ ser_g = 0 /\ ser_a = <<>>
    /\ prob_not_get_g_hit = <<>> /\ ser_sum = <<>>
    /\ ser_check = 0 /\ check_g = 0 /\ ser_hist = <<>>

\* ------------------------------------------------------------------------
\* my_sort (search.c)
\* ------------------------------------------------------------------------

NUM_BIN == 20

Max(x, y) == IF x > y THEN x ELSE y
Min(x, y) == IF x < y THEN x ELSE y

\* 1 when x is better than y, -1 when y is better, 0 when they tie.
my_compare_nosigtime(x, y) ==
    IF x.sig_size < y.sig_size THEN 1
    ELSE IF x.sig_size > y.sig_size THEN -1
    ELSE IF x.ver_time < y.ver_time THEN 1
    ELSE IF x.ver_time > y.ver_time THEN -1
    ELSE 0
my_compare(x, y) ==
    IF x.sig_size < y.sig_size THEN 1
    ELSE IF x.sig_size > y.sig_size THEN -1
    ELSE IF x.sig_time < y.sig_time THEN 1
    ELSE IF x.sig_time > y.sig_time THEN -1
    ELSE IF x.ver_time < y.ver_time THEN 1
    ELSE IF x.ver_time > y.ver_time THEN -1
    ELSE 0

\* The merge of two best-first lists.
RECURSIVE my_merge(_, _)
my_merge(x, y) ==
    IF x # <<>> /\ y # <<>>
    THEN IF my_compare(Head(x), Head(y)) >= 0
         THEN <<Head(x)>> \o my_merge(Tail(x), y)
         ELSE <<Head(y)>> \o my_merge(x, Tail(y))
    ELSE IF x # <<>> THEN x ELSE y

\* The ripple loop of my_sort from bin i on, carrying the run p: the bins
\* after the loop and the overflow store that follows it.
RECURSIVE RippleAdd_keep(_, _, _, _)
RippleAdd_keep(b, p, i, n) ==
    IF i = n
    THEN [b EXCEPT ![n - 1] = p]
    ELSE IF b[i] = <<>>
         THEN [b EXCEPT ![i] = p]
         ELSE RippleAdd_keep(b, my_merge(b[i], p), i + 1, n)
RECURSIVE RippleAdd_drop(_, _, _, _)
RippleAdd_drop(b, p, i, n) ==
    IF i = n
    THEN b
    ELSE IF b[i] = <<>>
         THEN [b EXCEPT ![i] = p]
         ELSE RippleAdd_drop([b EXCEPT ![i] = <<>>], my_merge(b[i], p), i + 1, n)
RECURSIVE RippleAdd(_, _, _, _)
RippleAdd(b, p, i, n) ==
    IF i = n
    THEN [b EXCEPT ![n - 1] = p]
    ELSE IF b[i] = <<>>
         THEN [b EXCEPT ![i] = p]
         ELSE RippleAdd([b EXCEPT ![i] = <<>>], my_merge(b[i], p), i + 1, n)

\* The final loop of my_sort: p = my_merge(bins[i], p) for i from i on.
RECURSIVE CombineBins(_, _, _, _)
CombineBins(b, p, i, n) ==
    IF i = n THEN p ELSE CombineBins(b, my_merge(b[i], p), i + 1, n)

\* The sort keys the input lists are drawn from: at most one of the three
\* keys is above 1, which lets every key decide against every later key.
SortKeys ==
    { t \in (1..MaxKey) \X (1..MaxKey) \X (1..MaxKey) :
        Cardinality({ j \in 1..3 : t[j] > 1 }) <= 1 }

\* A list of parameter sets with the given keys; id is the element's
\* identity (its address), here its place in the input list.
ListOf(ks) ==
    [ j \in 1..Len(ks) |->
        [id |-> j, sig_size |-> ks[j][1], sig_time |-> ks[j][2],
         ver_time |-> ks[j][3]] ]

RECURSIVE SeqsUpTo(_, _)
SeqsUpTo(S, n) ==
    IF n = 0 THEN { <<>> }
    ELSE LET shorter == SeqsUpTo(S, n - 1)
         IN  shorter \cup { Append(s, x) : s \in { t \in shorter : Len(t) = n - 1 }, x \in S }

SortInputs == { ListOf(ks) : ks \in SeqsUpTo(SortKeys, MaxLen) }

InitSort ==
    /\ pc = "sort_insert"
    /\ num_bin \in {SmallBins, NUM_BIN}
    /\ input \in SortInputs
    /\ list = input
    /\ bins = [i \in 0..(num_bin - 1) |-> <<>>]
    /\ sorted = <<>>
    /\ IdleQueues
    /\ IdleSelect
    /\ IdleSigs
    /\ IdleEnum
    /\ IdleGraph
    /\ IdleSeries
    /\ IdleIndex
    /\ IdleHeap

\* One turn of the while loop: take the first element off the list and
\* ripple-add it to the bins.
SortInsert ==
    /\ pc = "sort_insert"
    /\ list # <<>>
    /\ list' = Tail(list)
    /\ bins' = RippleAdd(bins, <<Head(list)>>, 0, num_bin)
    /\ UNCHANGED <<pc, num_bin, input, sorted, notSort>>

\* The list is empty: combine the bins and return.
SortCombine ==
    /\ pc = "sort_insert"
    /\ list = <<>>
    /\ sorted' = CombineBins(bins, <<>>, 0, num_bin)
    /\ pc' = "sort_done"
    /\ UNCHANGED <<num_bin, input, list, bins, notSort>>

NextSort == SortInsert \/ SortCombine

SpecSort == InitSort /\ [][NextSort]_vars

\* ---- my_sort with fewer bins than the list needs
\* my_sort with 1 to SmallBins bins in place of NUM_BIN, so that the ripple
\* loop runs past the last bin, once and again, on the lists of the model.
\* The lists are those whose elements differ in signature size and signing
\* cost, and in their identity.
OverflowInputs ==
    { s \in SortInputs : \A j \in 1..Len(s) : s[j].ver_time = 1 }

InitSortOverflow ==
    /\ pc = "sort_insert"
    /\ num_bin \in 1..SmallBins
    /\ input \in OverflowInputs
    /\ list = input
    /\ bins = [i \in 0..(num_bin - 1) |-> <<>>]
    /\ sorted = <<>>
    /\ IdleQueues
    /\ IdleSelect
    /\ IdleSigs
    /\ IdleEnum
    /\ IdleGraph
    /\ IdleSeries
    /\ IdleIndex
    /\ IdleHeap

SpecSortOverflow == InitSortOverflow /\ [][NextSort]_vars

\* ------------------------------------------------------------------------
\* do_search: the selection loop (search.c)
\* ------------------------------------------------------------------------

\* The class of a parameter set, by its Winternitz parameter: the list it
\* is placed on (0: w16_q, 1: w256_q, 2: wother_q).
ClassOf(width) ==
    IF width = 16 THEN 0 ELSE IF width = 256 \/ width = 4 THEN 1 ELSE 2

\* The overuse value of parameter set p: what compute_sigs_at_sec_level
\* returns for its h, a and k at the secondary security level.  In the
\* selection loop a parameter set carries that value with it.
Overuse(p) == p.overuse

\* The choice of the next parameter set.  A pointer to a list element is
\* the list from that element on, <<>> is NULL.
PickWinner_first(q16, q256, qother) ==
    LET s0 == [p |-> q16, winner |-> 0]
        s1 == IF s0.p = <<>>
                 \/ (q256 # <<>> /\ Head(q256).sig_size < Head(s0.p).sig_size)
              THEN [p |-> q256, winner |-> 1]
              ELSE s0
    IN  IF s1.p = <<>>
           \/ (qother # <<>> /\ q16 # <<>>
                 /\ Head(qother).sig_size < Head(q16).sig_size)
        THEN [p |-> qother, winner |-> 2]
        ELSE s1
PickWinner_ties(q16, q256, qother) ==
    LET s0 == [p |-> q16, winner |-> 0]
        s1 == IF s0.p = <<>>
                 \/ (q256 # <<>> /\ Head(q256).sig_size <= Head(s0.p).sig_size)
              THEN [p |-> q256, winner |-> 1]
              ELSE s0
    IN  IF s1.p = <<>>
           \/ (qother # <<>> /\ Head(qother).sig_size < Head(s1.p).sig_size)
        THEN [p |-> qother, winner |-> 2]
        ELSE s1
PickWinner(q16, q256, qother) ==
    LET s0 == [p |-> q16, winner |-> 0]
        s1 == IF s0.p = <<>>
                 \/ (q256 # <<>> /\ Head(q256).sig_size < Head(s0.p).sig_size)
              THEN [p |-> q256, winner |-> 1]
              ELSE s0
    IN  IF s1.p = <<>>
           \/ (qother # <<>> /\ Head(qother).sig_size < Head(s1.p).sig_size)
        THEN [p |-> qother, winner |-> 2]
        ELSE s1

\* Whether a listed parameter set with this overuse value stops the listing.
DoCutoff(overuse, maxs) == maxs # 0 /\ (overuse \div 100) >= maxs

\* The update of min_sec_level, were it made for every class.
RaiseMinSecLevel_all(m, winner, overuse) ==
    [j \in 0..2 |-> IF overuse > m[j] THEN overuse ELSE m[j]]

\* The update of min_sec_level, were the overuse value stored in classes
\* winner..2 without the comparison.
RaiseMinSecLevel_set(m, winner, overuse) ==
    [j \in 0..2 |-> IF j >= winner THEN overuse ELSE m[j]]

\* The update of min_sec_level for classes winner..2.
RaiseMinSecLevel_own(m, winner, overuse) ==
    [j \in 0..2 |-> IF j = winner /\ overuse > m[j] THEN overuse ELSE m[j]]
RaiseMinSecLevel(m, winner, overuse) ==
    [j \in 0..2 |-> IF j >= winner /\ overuse > m[j] THEN overuse ELSE m[j]]

\* The update of cutoff for classes winner..2.
RaiseCutoff_own(c, winner, do_cutoff) ==
    [j \in 0..2 |-> IF j = winner THEN c[j] \/ do_cutoff ELSE c[j]]
RaiseCutoff(c, winner, do_cutoff) ==
    [j \in 0..2 |-> IF j >= winner THEN c[j] \/ do_cutoff ELSE c[j]]

\* Whether the loop discards a parameter set with this overuse value.
NotBetter_lt(overuse, m, winner) == overuse < m[winner]
NotBetter(overuse, m, winner) == overuse <= m[winner]

\* The selection loop as a function: the parameter sets it lists, in order,
\* when it is entered with these three sequences, this min_sec_level (m)
\* and cutoff (c), and this stop threshold.
RECURSIVE RunLoop(_, _, _, _, _, _)
RunLoop(q16, q256, qother, m, c, maxs) ==
    IF q16 = <<>> /\ q256 = <<>> /\ qother = <<>>
    THEN <<>>
    ELSE LET pick == PickWinner(q16, q256, qother)
             winner == pick.winner
             p == Head(pick.p)
             overuse == Overuse(p)
             n16 == IF winner = 0 THEN Tail(q16) ELSE q16
             n256 == IF winner = 1 THEN Tail(q256) ELSE q256
             nother == IF winner = 2 THEN Tail(qother) ELSE qother
             m2 == RaiseMinSecLevel(m, winner, overuse)
             c2 == RaiseCutoff(c, winner, DoCutoff(overuse, maxs))
         IN  IF c[winner] \/ NotBetter(overuse, m, winner)
             THEN RunLoop(n16, n256, nother, m, c, maxs)
             ELSE <<p>> \o (IF c2[0]
                            THEN <<>>
                            ELSE RunLoop(n16, n256, nother, m2, c2, maxs))

\* The parameter sets a class sequence is drawn from: one width stands
\* for each class.
ClassWidths(c) == IF c = 0 THEN {16} ELSE IF c = 1 THEN {4} ELSE {8}

\* The overuse values: none, one step and two steps.
OveruseValues == { 0, OvStep, 2 * OvStep }

SelectSets(c) ==
    [w : ClassWidths(c), sig_size : 1..MaxSize, overuse : OveruseValues]

RECURSIVE SeqsOfLen(_, _)
SeqsOfLen(S, n) ==
    IF n = 0 THEN { <<>> }
    ELSE { Append(s, x) : s \in SeqsOfLen(S, n - 1), x \in S }

\* The order my_sort leaves on the one key the selection loop reads.
SizeOrdered(q) ==
    \A i \in 1..Len(q) : \A j \in 1..Len(q) :
        i < j => q[i].sig_size <= q[j].sig_size

ClassSeqs(c, n) == { q \in SeqsOfLen(SelectSets(c), n) : SizeOrdered(q) }

\* The state at the head of the selection loop: three sorted sequences.
InitSelect ==
    /\ pc = "select"
    /\ max_s \in 0..MaxStop
    /\ \E n0 \in 0..MaxTotal :
         \E n1 \in 0..(MaxTotal - n0) :
           \E n2 \in 0..(MaxTotal - n0 - n1) :
             /\ w16_q \in ClassSeqs(0, n0)
             /\ w256_q \in ClassSeqs(1, n1)
             /\ wother_q \in ClassSeqs(2, n2)
    /\ print_list = <<>>
    /\ min_sec_level = [j \in 0..2 |-> 0]
    /\ cutoff = [j \in 0..2 |-> FALSE]
    /\ freed = <<>>
    /\ IdleSort
    /\ IdleSigs
    /\ IdleEnum
    /\ IdleGraph
    /\ IdleSeries
    /\ IdleIndex
    /\ IdleHeap

\* One turn of the selection loop.
SelectStep ==
    /\ pc = "select"
    /\ w16_q # <<>> \/ w256_q # <<>> \/ wother_q # <<>>
    /\ LET pick == PickWinner(w16_q, w256_q, wother_q)
           winner == pick.winner
           p == Head(pick.p)
           overuse == Overuse(p)
           do_cutoff == DoCutoff(overuse, max_s)
       IN  /\ w16_q' = IF winner = 0 THEN Tail(w16_q) ELSE w16_q
           /\ w256_q' = IF winner = 1 THEN Tail(w256_q) ELSE w256_q
           /\ wother_q' = IF winner = 2 THEN Tail(wother_q) ELSE wother_q
           /\ IF cutoff[winner]
              THEN /\ freed' = Append(freed,
                        [p |-> p, winner |-> winner, why |-> "cutoff",
                         listed |-> Len(print_list)])
                   /\ UNCHANGED <<pc, print_list, min_sec_level, cutoff>>
              ELSE IF NotBetter(overuse, min_sec_level, winner)
              THEN /\ freed' = Append(freed,
                        [p |-> p, winner |-> winner, why |-> "overuse",
                         listed |-> Len(print_list)])
                   /\ UNCHANGED <<pc, print_list, min_sec_level, cutoff>>
              ELSE /\ print_list' = Append(print_list, p)
                   /\ min_sec_level' =
                          RaiseMinSecLevel(min_sec_level, winner, overuse)
                   /\ cutoff' = RaiseCutoff(cutoff, winner, do_cutoff)
                   /\ pc' = IF cutoff'[0] THEN "report" ELSE "select"
                   /\ UNCHANGED freed
    /\ UNCHANGED <<max_s, notSelect>>

\* The three sequences are empty: the loop ends.
SelectExit ==
    /\ pc = "select"
    /\ w16_q = <<>> /\ w256_q = <<>> /\ wother_q = <<>>
    /\ pc' = "report"
    /\ UNCHANGED <<queueVars, selVars, notSelect>>

NextSelect == SelectStep \/ SelectExit

SpecSelect == InitSelect /\ [][NextSelect]_vars

\* ------------------------------------------------------------------------
\* compute_sigs_at_sec_level (gamma.c)
\* ------------------------------------------------------------------------

\* The number of steps of the second scan, each of one hundredth.
FractSteps == 100

\* Numbers of signatures (log2) are kept in units of 0.005, the finest
\* step the function probes at: GridPerUnit of them make 1.
GridPerUnit == 2 * FractSteps

\* compute_sec_level at the grid point g.  Only its comparison with the
\* level asked for is read, so a non-increasing estimator is the step that
\* is at the level below `cross` and under it from `cross` on.
compute_sec_level(g) ==
    IF g < cross THEN test_sec_level ELSE test_sec_level - 1

\* The point the first scan probes: lower + 1.
IntProbe(lo) == (lo + 1) * GridPerUnit

\* The point the second scan probes: lower + fract * 0.01 + 0.005.
FractProbe_nooffset(lo, fr) == lo * GridPerUnit + 2 * fr
FractProbe(lo, fr) == lo * GridPerUnit + 2 * fr + 1

\* The largest number of signatures (log2) the estimator crosses at, and
\* the largest level asked for.
MaxM == 2
MaxTarget == 2

InitSigs ==
    /\ pc = "scan_int"
    /\ test_sec_level \in 1..MaxTarget
    /\ cross \in 1..(MaxM * GridPerUnit)
    /\ lower = 0
    /\ fract = 0
    /\ sigs = 0
    /\ IdleSort
    /\ IdleQueues
    /\ IdleSelect
    /\ IdleEnum
    /\ IdleGraph
    /\ IdleSeries
    /\ IdleIndex
    /\ IdleHeap

\* One turn of the scan by integers.
ScanInt ==
    /\ pc = "scan_int"
    /\ IF compute_sec_level(IntProbe(lower)) < test_sec_level
       THEN /\ pc' = "scan_fract"
            /\ UNCHANGED lower
       ELSE /\ lower' = lower + 1
            /\ UNCHANGED pc
    /\ UNCHANGED <<test_sec_level, cross, fract, sigs, notSigs>>

\* One turn of the scan by hundredths, and the return when it ends.
ScanFract ==
    /\ pc = "scan_fract"
    /\ IF fract < FractSteps
            /\ ~(compute_sec_level(FractProbe(lower, fract)) < test_sec_level)
       THEN /\ fract' = fract + 1
            /\ UNCHANGED <<pc, sigs>>
       ELSE /\ sigs' = 100 * lower + fract
            /\ pc' = "sigs_done"
            /\ UNCHANGED fract
    /\ UNCHANGED <<test_sec_level, cross, lower, notSigs>>

NextSigs == ScanInt \/ ScanFract

SpecSigs == InitSigs /\ [][NextSigs]_vars

\* ---- compute_sigs_at_sec_level with the levels main can pass

\* main passes as the level sec_level - 32, or sec_level / 2 when that is
\* negative, unless tests= gives one: the level is 0 for s=32 and for s=1.
\* compute_sec_level returns lambda * log2(e) - log_sum, and the sum is
\* below exp(lambda), so what it returns is never below 0: at level 0 the
\* scan by integers never finds r < sec_level.  The scan then reaches
\* m = H + CounterBits, where the g of compute_sec_level wraps and the call
\* does not return.

\* The g of compute_sec_level is an unsigned, of 32 bits.
CounterBits == 32

\* The hypertree height of the parameter set scanned.
ScanH == 2

\* The first grid point at which compute_sec_level does not return.
NoReturnFrom == (ScanH + CounterBits) * GridPerUnit

InitSigsAnyLevel ==
    /\ pc = "scan_int"
    /\ \/ /\ test_sec_level \in 1..MaxTarget
          /\ cross \in 1..(MaxM * GridPerUnit)
       \/ /\ test_sec_level = 0
          /\ cross = NoReturnFrom
    /\ lower = 0
    /\ fract = 0
    /\ sigs = 0
    /\ IdleSort
    /\ IdleQueues
    /\ IdleSelect
    /\ IdleEnum
    /\ IdleGraph
    /\ IdleSeries
    /\ IdleIndex
    /\ IdleHeap

\* A turn of the scan by integers whose call of compute_sec_level returns.
ScanIntReturns ==
    /\ IntProbe(lower) < NoReturnFrom
    /\ ScanInt

\* A turn of the scan by integers whose call of compute_sec_level does not
\* return.
ScanIntHangs ==
    /\ pc = "scan_int"
    /\ IntProbe(lower) >= NoReturnFrom
    /\ pc' = "in_compute_sec_level"
    /\ UNCHANGED <<sigsVars, notSigs>>

NextSigsAnyLevel == ScanIntReturns \/ ScanIntHangs \/ ScanFract

\* Every loop of the function goes on as long as it can.
SpecSigsAnyLevel ==
    InitSigsAnyLevel /\ [][NextSigsAnyLevel]_vars /\ WF_vars(NextSigsAnyLevel)

\* ------------------------------------------------------------------------
\* do_search: the enumeration loops (search.c)
\* ------------------------------------------------------------------------

MAX_K == 100

\* log_w, which the w loop steps along with w.
LogW(wv) == CHOOSE n \in 1..8 : 2^n = wv

hash_size(sl) == (sl + 7) \div 8

\* The number of digits that express the hash.
hash_d(sl, wv) == (sl + LogW(wv) - 1) \div LogW(wv)

\* The number of digits that express the checksum: the loop that counts
\* the powers of w below max_sum.
RECURSIVE checksum_d(_, _, _, _)
checksum_d(c, prod, max_sum, wv) ==
    IF prod < max_sum THEN checksum_d(c + 1, prod * wv, max_sum, wv) ELSE c

\* The number of Winternitz digits.
wd(sl, wv) ==
    hash_d(sl, wv) + checksum_d(1, wv, (wv - 1) * hash_d(sl, wv), wv)

cost_ots(sl, wv) == 1 + wd(sl, wv) * wv

\* cost_hypertree is a float: it holds every integer below 2^24 exactly,
\* and a product above that is rounded to a value that is not below 2^24.
\* Every budget of the model is below 2^24 and the cost is only compared
\* with the budget or added to below it, so a cost of Beyond or more is
\* kept as Beyond.
Beyond == 2^26

SatMul(x, y) ==
    IF x = 0 \/ y = 0 THEN 0
    ELSE IF y > Beyond \div x THEN Beyond
    ELSE x * y

\* The number of leaves of one Merkle tree, 1 << h_merkle.
node_tree(hm) == IF hm >= 26 THEN Beyond ELSE 2^hm

cost_hypertree(dv, co, hm) ==
    SatMul(dv, SatMul(co + 1, node_tree(hm)) - 1)

cost_fors_tree(av) == 3 * 2^av - 1

\* h < num_sig - 5, compared as unsigned: below 5, num_sig - 5 wraps to a
\* value above every height.
HeightTooSmall(hv, ns) == IF ns >= 5 THEN hv < ns - 5 ELSE TRUE

\* The test that ends the k loop.
OverBudget_ge(ch, kv, cf, budget) == ch + kv * cf >= budget
OverBudget(ch, kv, cf, budget) == ch + kv * cf > budget

\* check_sec_level sums a series in floating point, which the model does
\* not compute: the verdicts of a run are those of one rule of a family.
\* Rule 0 is the test of the first term of the series alone (the sum
\* m - H - K*T against -sec_level), rule 1 accepts everything, and a rule
\* r above 1 rejects the parameter sets whose H + T + K is a multiple of r.
check_sec_level(rule, m, H, T, K, level) ==
    IF rule = 0 THEN H - m + K * T >= level
    ELSE IF rule = 1 THEN TRUE
    ELSE (H + T + K) % rule # 0

\* The value of a field of the block malloc returns before the field is
\* stored to: no value an unsigned field takes.
Indeterminate == -1

\* The block malloc returns.  h_merkle is no field of the structure: it
\* keeps the height the set was enumerated with.
Malloc ==
    [ h |-> Indeterminate, d |-> Indeterminate, a |-> Indeterminate,
      k |-> Indeterminate, w |-> Indeterminate,
      sig_size |-> Indeterminate, sig_time |-> Indeterminate,
      ver_time |-> Indeterminate, h_merkle |-> Indeterminate ]

\* The parameter set the k loop allocates and fills in, field by field,
\* before it links it.  h, d, a and k are unsigned char and w is unsigned
\* short.
NewParameterSet_nover(sl, wv, hm, hv, dv, av, kv) ==
    [ Malloc EXCEPT
      !.h = hv % 256,
      !.d = dv % 256,
      !.a = av % 256,
      !.k = kv % 256,
      !.w = wv % 65536,
      !.sig_size =
          hash_size(sl) * (1 + kv * (av + 1) + dv * (wd(sl, wv) + hm)),
      !.sig_time =
          3 + cost_hypertree(dv, cost_ots(sl, wv), hm)
            + kv * cost_fors_tree(av),
      !.h_merkle = hm ]
NewParameterSet(sl, wv, hm, hv, dv, av, kv) ==
    [ Malloc EXCEPT
      !.h = hv % 256,
      !.d = dv % 256,
      !.a = av % 256,
      !.k = kv % 256,
      !.w = wv % 65536,
      !.sig_size =
          hash_size(sl) * (1 + kv * (av + 1) + dv * (wd(sl, wv) + hm)),
      !.sig_time =
          3 + cost_hypertree(dv, cost_ots(sl, wv), hm)
            + kv * cost_fors_tree(av),
      !.ver_time =
          1 + kv * (av + 1) + 1
            + dv * ((wd(sl, wv) * wv) \div 2 + 1 + hm),
      !.h_merkle = hm ]

\* The runs of the model: a grid of small runs, each filter absent or set,
\* and one run at NIST level 5 with all three filters set.
MaxSecLevel == 2
MaxNumSig == 8
BaseSignOp == 156
SignOpCount == 2
MaxRule == 2
FilterD == 2
FilterH == 2
FilterA == 2
Level5 == 256
DeepSignOp == 8000000
DeepD == 29
DeepH == 9
DeepA == 8

SmallRun ==
    /\ sec_level \in 1..MaxSecLevel
    /\ num_sig \in 1..MaxNumSig
    /\ sign_op \in BaseSignOp..(BaseSignOp + SignOpCount - 1)
    /\ d_restrict \in {0, FilterD}
    /\ h_restrict \in {0, FilterH}
    /\ a_restrict \in {0, FilterA}

DeepRun ==
    /\ sec_level = Level5
    /\ num_sig = MaxNumSig
    /\ sign_op = DeepSignOp
    /\ d_restrict = DeepD
    /\ h_restrict = DeepH
    /\ a_restrict = DeepA

InitEnum ==
    /\ pc = "w_loop"
    /\ SmallRun \/ DeepRun
    /\ sec_rule \in 0..MaxRule
    /\ w = 4
    /\ h_merkle = 0 /\ h = 0 /\ d = 0 /\ a = 0 /\ k = 0
    /\ IdleQueues
    /\ IdleSort
    /\ IdleSelect
    /\ IdleSigs
    /\ IdleGraph
    /\ IdleSeries
    /\ IdleIndex
    /\ IdleHeap

\* The head of the w loop: enter the h_merkle loop, or leave the loops.
WLoop ==
    /\ pc = "w_loop"
    /\ IF w <= 256
       THEN /\ h_merkle' = 2
            /\ pc' = "h_loop"
       ELSE /\ pc' = "enumerated"
            /\ UNCHANGED h_merkle
    /\ UNCHANGED <<w, h, d, a, k, queueVars, argVars, notEnum>>

\* One turn of the h_merkle loop, up to the entry of the d loop; at its
\* end the w loop steps.
HMerkleLoop ==
    /\ pc = "h_loop"
    /\ IF h_merkle <= sec_level + 20 /\ h_merkle < 32
       THEN IF h_restrict # 0 /\ h_merkle # h_restrict
            THEN /\ h_merkle' = h_merkle + 1
                 /\ UNCHANGED <<pc, w, h, d>>
            ELSE /\ h' = h_merkle
                 /\ d' = 1
                 /\ pc' = "d_loop"
                 /\ UNCHANGED <<w, h_merkle>>
       ELSE /\ w' = 2 * w
            /\ pc' = "w_loop"
            /\ UNCHANGED <<h_merkle, h, d>>
    /\ UNCHANGED <<a, k, queueVars, argVars, notEnum>>

\* One turn of the d loop, up to the entry of the a loop; a break or its
\* end steps the h_merkle loop.
DLoop ==
    /\ pc = "d_loop"
    /\ IF h <= sec_level + 30 /\ d < 30
       THEN IF \/ d_restrict # 0 /\ d # d_restrict
               \/ HeightTooSmall(h, num_sig)
            THEN /\ h' = h + h_merkle
                 /\ d' = d + 1
                 /\ UNCHANGED <<pc, h_merkle, a>>
            ELSE IF cost_hypertree(d, cost_ots(sec_level, w), h_merkle)
                        >= sign_op
            THEN /\ h_merkle' = h_merkle + 1
                 /\ pc' = "h_loop"
                 /\ UNCHANGED <<h, d, a>>
            ELSE /\ a' = 1
                 /\ pc' = "a_loop"
                 /\ UNCHANGED <<h_merkle, h, d>>
       ELSE /\ h_merkle' = h_merkle + 1
            /\ pc' = "h_loop"
            /\ UNCHANGED <<h, d, a>>
    /\ UNCHANGED <<w, k, queueVars, argVars, notEnum>>

\* One turn of the a loop, up to the entry of the k loop; at its end the
\* d loop steps.
ALoop ==
    /\ pc = "a_loop"
    /\ IF a < 30
       THEN IF a_restrict # 0 /\ a # a_restrict
            THEN /\ a' = a + 1
                 /\ UNCHANGED <<pc, h, d, k>>
            ELSE /\ k' = 1
                 /\ pc' = "k_loop"
                 /\ UNCHANGED <<h, d, a>>
       ELSE /\ h' = h + h_merkle
            /\ d' = d + 1
            /\ pc' = "d_loop"
            /\ UNCHANGED <<a, k>>
    /\ UNCHANGED <<w, h_merkle, queueVars, argVars, notEnum>>

\* The k loop has a parameter set within the budget that meets the
\* security level.
Admits ==
    /\ k < MAX_K
    /\ ~OverBudget(cost_hypertree(d, cost_ots(sec_level, w), h_merkle),
                   k, cost_fors_tree(a), sign_op)
    /\ check_sec_level(sec_rule, num_sig, h, a, k, sec_level)

\* The list of parameter sets with p placed at its head.
Push(p, q) == <<p>> \o q

\* One turn of the k loop; a break or its end steps the a loop.
KLoop ==
    /\ pc = "k_loop"
    /\ IF k < MAX_K
          /\ ~OverBudget(cost_hypertree(d, cost_ots(sec_level, w), h_merkle),
                         k, cost_fors_tree(a), sign_op)
       THEN /\ k' = k + 1
            /\ UNCHANGED <<pc, a>>
            /\ IF Admits
               THEN LET p == NewParameterSet(sec_level, w, h_merkle,
                                             h, d, a, k)
                    IN  /\ w16_q' = IF ClassOf(w) = 0
                                    THEN Push(p, w16_q) ELSE w16_q
                        /\ w256_q' = IF ClassOf(w) = 1
                                     THEN Push(p, w256_q) ELSE w256_q
                        /\ wother_q' = IF ClassOf(w) = 2
                                       THEN Push(p, wother_q) ELSE wother_q
               ELSE UNCHANGED queueVars
       ELSE /\ a' = a + 1
            /\ pc' = "a_loop"
            /\ UNCHANGED <<k, queueVars>>
    /\ UNCHANGED <<w, h_merkle, h, d, argVars, notEnum>>

\* The turn of the k loop in which malloc returns NULL: do_search returns
\* with the parameter sets found so far left on the lists.
KLoopOutOfMemory ==
    /\ pc = "k_loop"
    /\ Admits
    /\ pc' = "aborted"
    /\ UNCHANGED <<loopVars, queueVars, argVars, notEnum>>

NextEnum ==
    WLoop \/ HMerkleLoop \/ DLoop \/ ALoop \/ KLoop \/ KLoopOutOfMemory

SpecEnum == InitEnum /\ [][NextEnum]_vars

\* ------------------------------------------------------------------------
\* do_search: the overuse graph of one listed parameter set (search.c)
\* ------------------------------------------------------------------------

\* The security level under which no line is written.
MinListed == 10

\* How far past max_s the graph runs.
GraphMargin == 10

\* compute_sec_level at x hundredths, for the parameter set being written:
\* est_vals[1] on the first est_knees[1] values of x, est_vals[2] up to the
\* first est_knees[2] values, est_vals[3] from there on.  The values need
\* not fall with x.
EstimateAt(xv) ==
    LET off == xv - 100 * (num_sig - 1)
    IN  IF off < est_knees[1] THEN est_vals[1]
        ELSE IF off < est_knees[2] THEN est_vals[2]
        ELSE est_vals[3]

\* if (y > sec_level) y = sec_level
Clip_none(y, sl) == y
Clip(y, sl) == IF y > sl THEN sl ELSE y

\* The first x that is not written.
GraphEnd == 100 * (max_s + GraphMargin)

\* The runs of the model: the largest max_s, how far num_sig lies from
\* max_s + GraphMargin, and the latest place a stretch of the estimator
\* ends.
GraphMaxStop == 1
GraphSpread == 1
MaxKnee == 3

EstLevels == { MinListed - 1, MinListed, MinListed + 2 }

InitGraph ==
    /\ pc = "graph_open"
    /\ sec_level \in { MinListed - 1, MinListed + 1 }
    /\ max_s \in 0..GraphMaxStop
    /\ num_sig \in (max_s + GraphMargin - GraphSpread)
                     ..(max_s + GraphMargin + GraphSpread)
    /\ est_vals \in EstLevels \X EstLevels \X EstLevels
    /\ est_knees \in { kn \in (0..MaxKnee) \X (0..MaxKnee) : kn[1] <= kn[2] }
    /\ csv_x = 0
    /\ csv_file = <<>>
    /\ sign_op = 0
    /\ d_restrict = 0 /\ h_restrict = 0 /\ a_restrict = 0
    /\ sec_rule = 0
    /\ w = 0 /\ h_merkle = 0 /\ h = 0 /\ d = 0 /\ a = 0 /\ k = 0
    /\ print_list = <<>>
    /\ min_sec_level = <<>>
    /\ cutoff = <<>>
    /\ freed = <<>>
    /\ IdleSort
    /\ IdleQueues
    /\ IdleSigs
    /\ IdleSeries
    /\ IdleIndex
    /\ IdleHeap

\* fopen returns a file: the loop starts at x = 100 * (num_sig - 1).
GraphOpen ==
    /\ pc = "graph_open"
    /\ csv_x' = 100 * (num_sig - 1)
    /\ pc' = "graph_loop"
    /\ UNCHANGED <<est_vals, est_knees, csv_file, notGraph>>

\* fopen returns NULL: the graph is skipped.
GraphOpenFails ==
    /\ pc = "graph_open"
    /\ pc' = "graph_skipped"
    /\ UNCHANGED <<graphVars, notGraph>>

\* One turn of the loop over x, and the fclose when it ends.
GraphStep ==
    /\ pc = "graph_loop"
    /\ IF csv_x < GraphEnd
          /\ ~(Clip(EstimateAt(csv_x), sec_level) < MinListed)
       THEN /\ csv_file' =
                   Append(csv_file,
                          [fx |-> csv_x,
                           y |-> Clip(EstimateAt(csv_x), sec_level)])
            /\ csv_x' = csv_x + 1
            /\ UNCHANGED pc
       ELSE /\ pc' = "graph_closed"
            /\ UNCHANGED <<csv_x, csv_file>>
    /\ UNCHANGED <<est_vals, est_knees, notGraph>>

NextGraph == GraphOpen \/ GraphOpenFails \/ GraphStep

SpecGraph == InitGraph /\ [][NextGraph]_vars

\* ------------------------------------------------------------------------
\* Numbers for the series of gamma.c
\* ------------------------------------------------------------------------

\* gamma.c keeps a, b and the running sum as doubles holding their log2.
\* Here the same quantities are kept themselves, as non-negative fixed-point
\* numbers: a sequence of limbs, least significant first, of which the
\* first FracLimbs are the fraction.  <<>> is zero; the most significant
\* limb of any other number is not zero.
LimbBase == 2^15
FracLimbs == 6

Limb(x, i) == IF i <= Len(x) THEN x[i] ELSE 0

RECURSIVE Trim(_)
Trim(x) ==
    IF x # <<>> /\ x[Len(x)] = 0 THEN Trim(SubSeq(x, 1, Len(x) - 1)) ELSE x

Shift(x, n) == IF x = <<>> THEN <<>> ELSE [j \in 1..n |-> 0] \o x

Drop(x, n) == IF Len(x) <= n THEN <<>> ELSE SubSeq(x, n + 1, Len(x))

\* The whole number n < LimbBase.
FxInt(n) == IF n = 0 THEN <<>> ELSE Shift(<<n>>, FracLimbs)

One == FxInt(1)

RECURSIVE AddLimbs(_, _, _, _)
AddLimbs(x, y, i, carry) ==
    IF i > Len(x) /\ i > Len(y)
    THEN IF carry = 0 THEN <<>> ELSE <<carry>>
    ELSE LET t == Limb(x, i) + Limb(y, i) + carry
         IN <<t % LimbBase>> \o AddLimbs(x, y, i + 1, t \div LimbBase)

FxAdd(x, y) == AddLimbs(x, y, 1, 0)

\* x - y, for x >= y.
RECURSIVE SubLimbs(_, _, _, _)
SubLimbs(x, y, i, borrow) ==
    IF i > Len(x)
    THEN <<>>
    ELSE LET t == Limb(x, i) - Limb(y, i) - borrow
         IN IF t < 0
            THEN <<t + LimbBase>> \o SubLimbs(x, y, i + 1, 1)
            ELSE <<t>> \o SubLimbs(x, y, i + 1, 0)

FxSub(x, y) == Trim(SubLimbs(x, y, 1, 0))

RECURSIVE LessFrom(_, _, _)
LessFrom(x, y, i) ==
    IF i = 0 THEN FALSE
    ELSE IF Limb(x, i) # Limb(y, i) THEN Limb(x, i) < Limb(y, i)
    ELSE LessFrom(x, y, i - 1)

\* x < y
FxLess(x, y) == LessFrom(x, y, Max(Len(x), Len(y)))

\* x times the whole number n <= LimbBase.
RECURSIVE ScaleLimbs(_, _, _, _)
ScaleLimbs(x, n, i, carry) ==
    IF i > Len(x)
    THEN IF carry = 0 THEN <<>> ELSE <<carry>>
    ELSE LET t == x[i] * n + carry
         IN <<t % LimbBase>> \o ScaleLimbs(x, n, i + 1, t \div LimbBase)

FxScale(x, n) == Trim(ScaleLimbs(x, n, 1, 0))

\* x divided by the whole number n, 0 < n <= LimbBase, rounded down.
RECURSIVE QuotLimbs(_, _, _, _)
QuotLimbs(x, n, i, rem) ==
    IF i = 0
    THEN <<>>
    ELSE LET t == rem * LimbBase + x[i]
         IN QuotLimbs(x, n, i - 1, t % n) \o <<t \div n>>

FxQuot(x, n) == Trim(QuotLimbs(x, n, Len(x), 0))

\* x times y, rounded down.
RECURSIVE MulFrom(_, _, _)
MulFrom(x, y, i) ==
    IF i > Len(x)
    THEN <<>>
    ELSE FxAdd(Shift(FxScale(y, x[i]), i - 1), MulFrom(x, y, i + 1))

FxMul(x, y) == Trim(Drop(MulFrom(x, y, 1), FracLimbs))

\* pow(x, n) for a whole number n.
RECURSIVE FxPow(_, _)
FxPow(x, n) ==
    IF n = 0 THEN One
    ELSE IF n % 2 = 0
         THEN LET r == FxPow(x, n \div 2)
              IN IF r = <<>> THEN <<>> ELSE FxMul(r, r)
         ELSE LET r == FxPow(x, n - 1)
              IN IF r = <<>> THEN <<>> ELSE FxMul(x, r)

\* lambda = 2^e as a fraction of whole numbers, and x times lambda.
LambdaNum(e) == IF e >= 0 THEN 2^e ELSE 1
LambdaDen(e) == IF e >= 0 THEN 1 ELSE 2^(0 - e)
TimesLambda(x, e) == FxQuot(FxScale(x, LambdaNum(e)), LambdaDen(e))

\* exp(lambda).  For lambda <= 1 it is the sum of lambda^j / j! over every
\* j >= 0, to the precision of the numbers; exp(2 lambda) is the square of
\* exp(lambda).
RECURSIVE ExpFrom(_, _, _, _)
ExpFrom(e, prev, j, acc) ==
    LET t == FxQuot(TimesLambda(prev, e), j)
        r == FxAdd(acc, t)
    IN IF t = <<>> \/ r = <<>> THEN acc ELSE ExpFrom(e, t, j + 1, r)

RECURSIVE Exp(_)
Exp(e) ==
    IF e <= 0
    THEN ExpFrom(e, One, 1, One)
    ELSE LET r == Exp(e - 1) IN IF r = <<>> THEN <<>> ELSE FxMul(r, r)

\* ------------------------------------------------------------------------
\* compute_sec_level and check_sec_level: the series (gamma.c)
\* ------------------------------------------------------------------------

\* The two functions run the same loop over g on the same quantities and
\* differ in when they leave it, so one turn of the loop is one action for
\* both: check_sec_level's return is noted at the first turn one of its
\* three exits is taken, and the turns go on until compute_sec_level's
\* break.  The caller then asks for the next m, as the scan by integers of
\* compute_sigs_at_sec_level does; lambda doubles, and exp(lambda) is
\* squared.

\* The loop stops when the sum is more than 2^TailBits times a, after at
\* least MinTerms terms.
TailBits == 20
MinTerms == 10

\* m runs from H - BelowH to H + AboveH; T is at most MaxSerT; K is 1 or
\* ManyK; the level asked of check_sec_level is 1 or ManyBits.
BelowH == 2
AboveH == 6
MaxSerT == 2
ManyK == 95
ManyBits == 6

\* 2^log_target, that is exp(lambda) / 2^sec_level.
Target == FxQuot(exp_lambda, 2^ser_level)

\* g > 2*lambda
PastTwiceLambda(gv) == gv * LambdaDen(log_lambda) > 2 * LambdaNum(log_lambda)

\* 2^log_max_sum: with p = lambda / (g+1), it is p / (1-p), which is
\* lambda / (g + 1 - lambda).
MaxSum(gv, av) ==
    FxQuot(FxInt(LambdaNum(log_lambda)),
           (gv + 1) * LambdaDen(log_lambda) - LambdaNum(log_lambda))

\* log_sum > 20 + log_a, after at least 10 terms.
TailIsSmall(gv, av, sv) ==
    gv >= MinTerms /\ FxLess(FxScale(FxScale(av, 2^(TailBits \div 2)),
                                     2^(TailBits - TailBits \div 2)), sv)

\* What check_sec_level does at the end of the turn that computed the term
\* gv, a = av and the sum sv: 0 or 1 when it returns, Indeterminate when it
\* goes on.
CheckExit(gv, av, sv) ==
    IF FxLess(Target, sv) THEN 0
    ELSE IF PastTwiceLambda(gv) /\ ~FxLess(Target, FxAdd(sv, MaxSum(gv, av)))
         THEN 1
    ELSE IF TailIsSmall(gv, av, sv) THEN 1
    ELSE Indeterminate

\* The quantities both functions set before the loop.
SeriesStart ==
    /\ ser_g = 0
    /\ ser_a = One
    /\ prob_not_get_g_hit = One
    /\ ser_sum = <<>>
    /\ ser_check = Indeterminate
    /\ check_g = 0

InitSeries ==
    /\ pc = "series_loop"
    /\ log_lambda = 0 - BelowH
    /\ exp_lambda = Exp(0 - BelowH)
    /\ ser_T \in 1..MaxSerT
    /\ ser_K \in { 1, ManyK }
    /\ ser_level \in { 1, ManyBits }
    /\ SeriesStart
    /\ ser_hist = <<>>
    /\ IdleSort
    /\ IdleQueues
    /\ IdleSelect
    /\ IdleSigs
    /\ IdleEnum
    /\ IdleGraph
    /\ IdleIndex
    /\ IdleHeap

\* One turn of the loop over g.
SeriesTurn ==
    /\ pc = "series_loop"
    /\ LET gv == ser_g + 1
           av == FxQuot(TimesLambda(ser_a, log_lambda), gv)
           qv == FxQuot(FxScale(prob_not_get_g_hit, 2^ser_T - 1), 2^ser_T)
           bv == FxPow(FxSub(One, qv), ser_K)
           sv == FxAdd(ser_sum, FxMul(av, bv))
           out == CheckExit(gv, av, sv)
       IN /\ ser_g' = gv
          /\ ser_a' = av
          /\ prob_not_get_g_hit' = qv
          /\ ser_sum' = sv
          /\ IF ser_check = Indeterminate /\ out # Indeterminate
             THEN ser_check' = out /\ check_g' = gv
             ELSE UNCHANGED <<ser_check, check_g>>
          /\ pc' = IF TailIsSmall(gv, av, sv) THEN "series_exit" ELSE pc
    /\ UNCHANGED <<log_lambda, ser_T, ser_K, ser_level, exp_lambda, ser_hist,
                   notSeries>>

\* compute_sec_level returns; the caller goes on to the next m.
SeriesReturn ==
    /\ pc = "series_exit"
    /\ ser_hist' = Append(ser_hist, [log_lambda |-> log_lambda,
                                     exp_lambda |-> exp_lambda,
                                     sum |-> ser_sum,
                                     g |-> ser_g,
                                     check |-> ser_check,
                                     check_g |-> check_g])
    /\ IF log_lambda < AboveH
       THEN /\ log_lambda' = log_lambda + 1
            /\ exp_lambda' = FxMul(exp_lambda, exp_lambda)
            /\ ser_g' = 0
            /\ ser_a' = One
            /\ prob_not_get_g_hit' = One
            /\ ser_sum' = <<>>
            /\ ser_check' = Indeterminate
            /\ check_g' = 0
            /\ pc' = "series_loop"
       ELSE /\ pc' = "series_done"
            /\ UNCHANGED <<log_lambda, exp_lambda, ser_g, ser_a,
                           prob_not_get_g_hit, ser_sum, ser_check, check_g>>
    /\ UNCHANGED <<ser_T, ser_K, ser_level, notSeries>>

NextSeries == SeriesTurn \/ SeriesReturn

SpecSeries == InitSeries /\ [][NextSeries]_vars

\* ------------------------------------------------------------------------
\* compute_sec_level: the index g when lambda is large (gamma.c)
\* ------------------------------------------------------------------------

\* With lambda = 2^log_lambda in the thousands of millions the loop takes
\* that many turns, so here only g is followed, by doublings.  While
\* g <= lambda / 2 each a is at least twice the one before (a is multiplied
\* by lambda / g >= 2), and every b is at most 1, so the running sum is at
\* most 2a: log_sum <= log_a + 1, the test log_sum > 20 + log_a fails, and
\* the loop goes on.  Past lambda / 2 the test depends on the values, which
\* this part does not keep.

\* m runs from H to H + FarAboveH.
FarAboveH == 40

\* The test of the break cannot hold at any g up to 2^p.
NoBreakUpTo(p) == p + 1 <= log_lambda

InitIndex ==
    /\ pc = "index_loop"
    /\ log_lambda \in 0..FarAboveH
    /\ g_pow = 0
    /\ ser_T = 0 /\ ser_K = 0 /\ ser_level = 0
    /\ exp_lambda = <<>> /\ ser_g = 0 /\ ser_a = <<>>
    /\ prob_not_get_g_hit = <<>> /\ ser_sum = <<>>
    /\ ser_check = 0 /\ check_g = 0 /\ ser_hist = <<>>
    /\ IdleSort
    /\ IdleQueues
    /\ IdleSelect
    /\ IdleSigs
    /\ IdleEnum
    /\ IdleGraph
    /\ IdleHeap

\* The turns that take g from 2^g_pow to twice that, none of which breaks.
IndexRunOn ==
    /\ pc = "index_loop"
    /\ NoBreakUpTo(g_pow + 1)
    /\ g_pow + 1 < CounterBits
    /\ g_pow' = g_pow + 1
    /\ UNCHANGED <<pc, log_lambda, notIndex>>

\* The turns that take g from 2^(CounterBits-1) to the largest unsigned,
\* none of which breaks, and the g++ after them: g is 0.  In the turn that
\* follows log2(g) is -infinity, log_a becomes +infinity and stays so, and
\* the test of the break is false from then on.
IndexWraps ==
    /\ pc = "index_loop"
    /\ NoBreakUpTo(g_pow + 1)
    /\ g_pow + 1 = CounterBits
    /\ g_pow' = 0
    /\ pc' = "index_wrapped"
    /\ UNCHANGED <<log_lambda, notIndex>>

\* g goes past lambda / 2 before it has all its bits: the loop breaks at a
\* g that depends on the sum.
IndexTail ==
    /\ pc = "index_loop"
    /\ ~NoBreakUpTo(g_pow + 1)
    /\ pc' = "index_tail"
    /\ UNCHANGED <<g_pow, log_lambda, notIndex>>

NextIndex == IndexRunOn \/ IndexWraps \/ IndexTail

SpecIndex == InitIndex /\ [][NextIndex]_vars

\* ------------------------------------------------------------------------
\* do_search and my_sort on the parameter sets as allocated objects
\* ------------------------------------------------------------------------

\* Here a parameter set is an object malloc returned: object n has the
\* fields cand[n] and the link field link[n]; a pointer is an object's
\* number, 0 is NULL.  The run is the enumeration (objects are created and
\* pushed on the list of their W), the three calls of my_sort, the
\* selection loop and the report loop.

\* The most objects created in a run, and the largest signature size.
OwnNodes == 3
OwnSizes == 2
\* The loop over w is followed as far as w = LastW: one W of each class.
LastW == 16

\* The number of the list that current_list points to for this w.
CurrentList(wv) == IF wv = 16 THEN 0 ELSE IF wv = 256 \/ wv = 4 THEN 1 ELSE 2
QueueName(c) == IF c = 0 THEN "w16_q" ELSE IF c = 1 THEN "w256_q"
                ELSE "wother_q"

NoBins == [i \in 0..(NUM_BIN - 1) |-> 0]

\* my_merge on objects, from the loop on: x and y are a and b, head is
\* list, tl is the object whose link field tail points to (0: tail points
\* to list), rd the objects whose fields were read or written so far.
\* The result is the link fields, the list returned and those objects.
RECURSIVE MergeFrom(_, _, _, _, _, _)
MergeFrom(lnk, x, y, head, tl, rd) ==
    IF x # 0 /\ y # 0
    THEN LET px == IF my_compare(cand[x], cand[y]) >= 0 THEN x ELSE y
             nx == IF px = x THEN lnk[x] ELSE x
             ny == IF px = x THEN y ELSE lnk[y]
             lnk2 == IF tl = 0 THEN lnk ELSE [lnk EXCEPT ![tl] = px]
             head2 == IF tl = 0 THEN px ELSE head
         IN  MergeFrom(lnk2, nx, ny, head2, px, rd \cup {x, y})
    ELSE LET rest == IF x # 0 THEN x ELSE y
         IN  [link |-> IF tl = 0 THEN lnk ELSE [lnk EXCEPT ![tl] = rest],
              head |-> IF tl = 0 THEN rest ELSE head,
              read |-> rd]

MergeObjects(lnk, x, y) == MergeFrom(lnk, x, y, 0, 0, {})

\* The ripple loop of my_sort on objects from bin i on, carrying the run p,
\* and the overflow store after it.
RECURSIVE RippleObjects_keep(_, _, _, _, _)
RippleObjects_keep(lnk, b, p, i, rd) ==
    IF i = NUM_BIN
    THEN [link |-> lnk, bins |-> [b EXCEPT ![NUM_BIN - 1] = p], read |-> rd]
    ELSE IF b[i] = 0
    THEN [link |-> lnk, bins |-> [b EXCEPT ![i] = p], read |-> rd]
    ELSE LET m == MergeObjects(lnk, b[i], p)
         IN  RippleObjects_keep(m.link, b, m.head, i + 1, rd \cup m.read)
RECURSIVE RippleObjects(_, _, _, _, _)
RippleObjects(lnk, b, p, i, rd) ==
    IF i = NUM_BIN
    THEN [link |-> lnk, bins |-> [b EXCEPT ![NUM_BIN - 1] = p], read |-> rd]
    ELSE IF b[i] = 0
    THEN [link |-> lnk, bins |-> [b EXCEPT ![i] = p], read |-> rd]
    ELSE LET m == MergeObjects(lnk, b[i], p)
         IN  RippleObjects(m.link, [b EXCEPT ![i] = 0], m.head, i + 1,
                           rd \cup m.read)

\* The final loop of my_sort on objects.
RECURSIVE CombineObjects(_, _, _, _, _)
CombineObjects(lnk, b, p, i, rd) ==
    IF i = NUM_BIN
    THEN [link |-> lnk, head |-> p, read |-> rd]
    ELSE LET m == MergeObjects(lnk, b[i], p)
         IN  CombineObjects(m.link, b, m.head, i + 1, rd \cup m.read)

\* Whether one of these objects has been passed to free().
Stray(rd) == stray \/ (rd \cap released # {})

InitOwn ==
    /\ pc = "own_enum"
    /\ max_s \in {0, OvStep \div 100}
    /\ min_sec_level = [j \in 0..2 |-> 0]
    /\ cutoff = [j \in 0..2 |-> FALSE]
    /\ cand = <<>>
    /\ link = <<>>
    /\ ptr = [w |-> 4, w16_q |-> 0, w256_q |-> 0, wother_q |-> 0,
              sorting |-> 0, list |-> 0, bins |-> NoBins,
              print_list |-> 0, end_print_list |-> 0, reported |-> <<>>]
    /\ released = {}
    /\ stray = FALSE
    /\ print_list = <<>> /\ freed = <<>>
    /\ IdleSort
    /\ IdleQueues
    /\ IdleSigs
    /\ IdleEnum
    /\ IdleGraph
    /\ IdleSeries
    /\ IdleIndex

notOwn == <<sortVars, queueVars, print_list, freed, sigsVars, argVars,
           loopVars, graphVars, seriesVars, indexVars>>

\* The loops come to a parameter set that checks out, at this w or a later
\* one: it is allocated, filled in and pushed on the list of its W.
OwnCreate ==
    /\ pc = "own_enum"
    /\ Len(cand) < OwnNodes
    /\ \E wv \in {4, 8, 16}, size \in 1..OwnSizes, ov \in {0, OvStep} :
         LET n == Len(cand) + 1
             q == QueueName(CurrentList(wv))
         IN  /\ wv >= ptr.w /\ wv <= LastW
             /\ cand' = Append(cand, [w |-> wv, sig_size |-> size,
                                      sig_time |-> 1, ver_time |-> 1,
                                      overuse |-> ov])
             /\ link' = Append(link, ptr[q])
             /\ ptr' = [ptr EXCEPT !.w = wv, ![q] = n]
    /\ UNCHANGED <<pc, max_s, min_sec_level, cutoff, released, stray, notOwn>>

\* malloc returns NULL: do_search prints its message and returns.
OwnMallocFails ==
    /\ pc = "own_enum"
    /\ Len(cand) < OwnNodes
    /\ pc' = "own_aborted"
    /\ UNCHANGED <<max_s, min_sec_level, cutoff, heapVars, notOwn>>

\* The loops end: my_sort is called on the W=16 list.
OwnEnumDone ==
    /\ pc = "own_enum"
    /\ pc' = "own_sort"
    /\ ptr' = [ptr EXCEPT !.sorting = 0, !.list = ptr.w16_q, !.bins = NoBins]
    /\ UNCHANGED <<max_s, min_sec_level, cutoff, cand, link, released, stray,
                   notOwn>>

\* One turn of the while loop of my_sort.
OwnSortInsert ==
    /\ pc = "own_sort"
    /\ ptr.list # 0
    /\ LET p == ptr.list
           r == RippleObjects([link EXCEPT ![p] = 0], ptr.bins, p, 0, {p})
       IN  /\ link' = r.link
           /\ ptr' = [ptr EXCEPT !.list = link[p], !.bins = r.bins]
           /\ stray' = Stray(r.read)
    /\ UNCHANGED <<pc, max_s, min_sec_level, cutoff, cand, released, notOwn>>

\* The list is empty: my_sort combines the bins and returns, the list of
\* do_search is assigned, and my_sort is called on the next list, or the
\* selection loop is entered.
OwnSortReturn ==
    /\ pc = "own_sort"
    /\ ptr.list = 0
    /\ LET r == CombineObjects(link, ptr.bins, 0, 0, {})
           q == QueueName(ptr.sorting)
           after == [ptr EXCEPT ![q] = r.head, !.bins = NoBins]
       IN  /\ link' = r.link
           /\ stray' = Stray(r.read)
           /\ IF ptr.sorting < 2
              THEN /\ ptr' = [after EXCEPT
                                !.sorting = ptr.sorting + 1,
                                !.list = after[QueueName(ptr.sorting + 1)]]
                   /\ pc' = pc
              ELSE /\ ptr' = after
                   /\ pc' = "own_select"
    /\ UNCHANGED <<max_s, min_sec_level, cutoff, cand, released, notOwn>>

\* One turn of the selection loop.
OwnSelect ==
    /\ pc = "own_select"
    /\ ptr.w16_q # 0 \/ ptr.w256_q # 0 \/ ptr.wother_q # 0
    /\ LET p0 == ptr.w16_q
           use1 == p0 = 0 \/ (ptr.w256_q # 0
                      /\ cand[ptr.w256_q].sig_size < cand[p0].sig_size)
           p1 == IF use1 THEN ptr.w256_q ELSE p0
           w1 == IF use1 THEN 1 ELSE 0
           use2 == p1 = 0 \/ (ptr.wother_q # 0
                      /\ cand[ptr.wother_q].sig_size < cand[p1].sig_size)
           p == IF use2 THEN ptr.wother_q ELSE p1
           winner == IF use2 THEN 2 ELSE w1
           compared == ({p0} \cup (IF p0 # 0 THEN {ptr.w256_q} ELSE {})
                            \cup (IF p1 # 0 THEN {ptr.wother_q} ELSE {}))
                       \ {0}
           pulled == [ptr EXCEPT ![QueueName(winner)] = link[p]]
           overuse == cand[p].overuse
           do_cutoff == DoCutoff(overuse, max_s)
       IN  IF cutoff[winner]
           THEN /\ released' = released \cup {p}
                /\ ptr' = pulled
                /\ stray' = Stray(compared \cup {p})
                /\ UNCHANGED <<pc, min_sec_level, cutoff, link>>
           ELSE IF overuse <= min_sec_level[winner]
           THEN /\ released' = released \cup {p}
                /\ ptr' = pulled
                /\ stray' = Stray(compared \cup {p})
                /\ UNCHANGED <<pc, min_sec_level, cutoff, link>>
           ELSE /\ link' = [n \in 1..Len(link) |->
                              IF n = p THEN 0
                              ELSE IF n = ptr.end_print_list THEN p
                              ELSE link[n]]
                /\ ptr' = [pulled EXCEPT
                             !.print_list = IF ptr.end_print_list = 0
                                            THEN p ELSE ptr.print_list,
                             !.end_print_list = p]
                /\ stray' = Stray(compared \cup {p}
                                    \cup ({ptr.end_print_list} \ {0}))
                /\ min_sec_level' =
                       RaiseMinSecLevel(min_sec_level, winner, overuse)
                /\ cutoff' = RaiseCutoff(cutoff, winner, do_cutoff)
                /\ pc' = IF cutoff'[0] THEN "own_report" ELSE pc
                /\ UNCHANGED released
    /\ UNCHANGED <<max_s, cand, notOwn>>

\* The three lists are empty: the selection loop ends.
OwnSelectExit ==
    /\ pc = "own_select"
    /\ ptr.w16_q = 0 /\ ptr.w256_q = 0 /\ ptr.wother_q = 0
    /\ pc' = "own_report"
    /\ UNCHANGED <<max_s, min_sec_level, cutoff, heapVars, notOwn>>

\* One turn of the report loop: the row of p = print_list is printed, its
\* overuse value worked out from its fields, and print_list steps on.
OwnReport ==
    /\ pc = "own_report"
    /\ ptr.print_list # 0
    /\ LET p == ptr.print_list
       IN  /\ ptr' = [ptr EXCEPT !.reported = Append(ptr.reported, p),
                                 !.print_list = link[p]]
           /\ stray' = Stray({p})
    /\ UNCHANGED <<pc, max_s, min_sec_level, cutoff, cand, link, released,
                   notOwn>>

\* print_list is NULL: the table is closed and do_search returns.
OwnReportDone ==
    /\ pc = "own_report"
    /\ ptr.print_list = 0
    /\ pc' = "own_done"
    /\ UNCHANGED <<max_s, min_sec_level, cutoff, heapVars, notOwn>>

NextOwn ==
    \/ OwnCreate
    \/ OwnMallocFails
    \/ OwnEnumDone
    \/ OwnSortInsert
    \/ OwnSortReturn
    \/ OwnSelect
    \/ OwnSelectExit
    \/ OwnReport
    \/ OwnReportDone

SpecOwn == InitOwn /\ [][NextOwn]_vars

\* ------------------------------------------------------------------------
\* The frontier (print_list) and the claims about the selection loop
\* ------------------------------------------------------------------------

Prefix(s, n) == SubSeq(s, 1, n)

ClassOfSet(p) == ClassOf(p.w)

\* The largest overuse value among the listed parameter sets of class c or
\* an easier class, 0 when there is none.
RECURSIVE MaxOveruseListed(_, _)
MaxOveruseListed(s, c) ==
    IF s = <<>> THEN 0
    ELSE LET rest == MaxOveruseListed(Tail(s), c)
         IN  IF ClassOfSet(Head(s)) <= c
             THEN Max(Head(s).overuse, rest)
             ELSE rest

\* Some listed parameter set of class c or an easier class reached the
\* stop threshold.
ReachedStop(s, c) ==
    /\ max_s # 0
    /\ \E i \in 1..Len(s) :
           ClassOfSet(s[i]) <= c /\ (s[i].overuse \div 100) >= max_s

\* Listed parameter set x is at least as good as y in size and overuse and
\* of an equal or easier class.
Dominates(x, y) ==
    /\ x.sig_size <= y.sig_size
    /\ x.overuse >= y.overuse
    /\ ClassOfSet(x) <= ClassOfSet(y)

\* C1: no parameter set on the frontier is dominated by one listed before
\* it: for frontier entries e_i before e_j it is never the case that e_i is
\* no larger, has no smaller overuse value and is of an equal or easier
\* class.
C1_NoDominatedEntry ==
    \A i \in 1..Len(print_list) : \A j \in 1..Len(print_list) :
        i < j => ~Dominates(print_list[i], print_list[j])

\* Three parameter sets are listed, not all of one class, and one was
\* discarded for its overuse value.
C1_Witness ==
    /\ Len(print_list) >= 2
    /\ \E i \in 1..Len(print_list) : \E j \in 1..Len(print_list) :
           /\ i < j
           /\ ClassOfSet(print_list[i]) # ClassOfSet(print_list[j])
           /\ print_list[i].sig_size = print_list[j].sig_size
    /\ \E n \in 1..Len(freed) : freed[n].why = "overuse"

\* C2: at every point of the selection loop the frontier is in
\* non-decreasing order of signature size.
C2_SmallestFirst ==
    \A i \in 1..Len(print_list) : \A j \in 1..Len(print_list) :
        i < j => print_list[i].sig_size <= print_list[j].sig_size

\* The frontier holds parameter sets of all three sequences, of more than
\* one size, the smallest from the last sequence.
C2_Witness ==
    /\ Len(print_list) = 3
    /\ ClassOfSet(print_list[1]) = 2
    /\ ClassOfSet(print_list[2]) = 0
    /\ ClassOfSet(print_list[3]) = 1
    /\ print_list[1].sig_size < print_list[3].sig_size

\* C5: a parameter set whose class is not cut off is listed exactly when
\* its overuse value is above that of every parameter set already listed
\* from an equal or easier class (0 when there is none), and is discarded
\* otherwise.
C5_ListedIffBetter ==
    /\ \A i \in 1..Len(print_list) :
           print_list[i].overuse >
               MaxOveruseListed(Prefix(print_list, i - 1),
                                ClassOfSet(print_list[i]))
    /\ \A n \in 1..Len(freed) :
           freed[n].why = "overuse" =>
               freed[n].p.overuse <=
                   MaxOveruseListed(Prefix(print_list, freed[n].listed),
                                    freed[n].winner)
    /\ \A j \in 0..2 : min_sec_level[j] = MaxOveruseListed(print_list, j)

\* A parameter set of a harder class was listed, then one of an easier
\* class with no higher overuse value was listed all the same, and then a
\* parameter set of that easier class, no smaller and with no higher
\* overuse value, was discarded.
C5_Witness ==
    /\ Len(print_list) = 2
    /\ ClassOfSet(print_list[1]) > ClassOfSet(print_list[2])
    /\ print_list[1].overuse >= print_list[2].overuse
    /\ \E n \in 1..Len(freed) :
           /\ freed[n].why = "overuse"
           /\ freed[n].listed = 2
           /\ freed[n].winner = ClassOfSet(print_list[2])
           /\ freed[n].p.sig_size >= print_list[2].sig_size
           /\ freed[n].p.overuse > 0

\* C6: a parameter set of class c is discarded for cutoff exactly when the
\* stop threshold is not 0 and a parameter set listed before, of class c or
\* an easier class, has an overuse value whose hundreds reach the
\* threshold.  So nothing of that class or a harder one is listed after
\* it, a W=16 entry that reaches the threshold ends the loop as the last
\* entry, and without a threshold nothing is cut off.
C6_Cutoff ==
    /\ \A n \in 1..Len(freed) :
           freed[n].why = "cutoff" <=>
               ReachedStop(Prefix(print_list, freed[n].listed),
                           freed[n].winner)
    /\ \A i \in 1..Len(print_list) :
           ~ReachedStop(Prefix(print_list, i - 1), ClassOfSet(print_list[i]))
    /\ \A j \in 0..2 : cutoff[j] <=> ReachedStop(print_list, j)
    /\ ReachedStop(print_list, 0) =>
           /\ pc = "report"
           /\ ClassOfSet(print_list[Len(print_list)]) = 0
    /\ max_s = 0 => \A j \in 0..2 : ~cutoff[j]

\* A W=4 parameter set reached the threshold, a W=16 one was listed after
\* it, and a parameter set of the last class was discarded for cutoff.
C6_Witness ==
    /\ Len(print_list) = 2
    /\ ClassOfSet(print_list[1]) = 1
    /\ ReachedStop(Prefix(print_list, 1), 1)
    /\ ClassOfSet(print_list[2]) = 0
    /\ \E n \in 1..Len(freed) :
           /\ freed[n].why = "cutoff"
           /\ freed[n].winner = 2
           /\ freed[n].listed = 1
           /\ freed[n].p.overuse > print_list[1].overuse

\* ------------------------------------------------------------------------
\* C8  my_sort returns a permutation of its input in best-first order
\* ------------------------------------------------------------------------

\* No element of s is better than an element before it.
BestFirst(s) ==
    \A i \in 1..Len(s) : \A j \in 1..Len(s) :
        i < j => my_compare(s[i], s[j]) >= 0

\* The keys in (sig_size, then sig_time, then ver_time) order, spelled out.
KeyLeq(x, y) ==
    \/ x.sig_size < y.sig_size
    \/ x.sig_size = y.sig_size /\ x.sig_time < y.sig_time
    \/ x.sig_size = y.sig_size /\ x.sig_time = y.sig_time
         /\ x.ver_time <= y.ver_time

IsPermutation(s, t) ==
    /\ Len(s) = Len(t)
    /\ \A x \in 1..Len(t) : Cardinality({ j \in 1..Len(s) : s[j] = t[x] }) = 1

\* C8: when my_sort returns, the returned list holds every input element
\* exactly once and nothing else, and it is ordered by signature size,
\* then signing cost, then verification cost, all ascending.
C8_SortCorrect ==
    pc = "sort_done" =>
        /\ IsPermutation(sorted, input)
        /\ \A i \in 1..Len(sorted) : \A j \in 1..Len(sorted) :
               i < j => KeyLeq(sorted[i], sorted[j])

\* A sort of 2^2+1 elements in NUM_BIN bins whose input was not in order
\* and held ties on the signature size has returned.
C8_Witness ==
    /\ pc = "sort_done"
    /\ num_bin = NUM_BIN
    /\ Len(input) = 5
    /\ ~BestFirst(input)
    /\ \E i \in 1..5 : \E j \in 1..5 :
           /\ i # j
           /\ input[i].sig_size = input[j].sig_size
           /\ input[i].sig_time # input[j].sig_time
    /\ sorted # input

\* ------------------------------------------------------------------------
\* C7  what compute_sigs_at_sec_level returns, against the crossing
\* ------------------------------------------------------------------------

\* The estimator at R/100 + off * 0.005 is at the level asked for or above.
MeetsAt(R, off) == compute_sec_level(2 * R + off) >= test_sec_level

\* C7 as stated: the value R returned has the estimator at R/100 at the
\* level asked for or above, and at (R+1)/100 under it.
C7_Bracket ==
    pc = "sigs_done" => MeetsAt(sigs, 0) /\ ~MeetsAt(sigs + 1, 0)

\* C7: the value R returned is the crossing rounded to the nearest
\* hundredth: the estimator at (R+0.5)/100 is under the level asked for,
\* and when R > 0 the estimator at (R-0.5)/100 is at that level or above.
C7_Nearest ==
    pc = "sigs_done" =>
        /\ ~MeetsAt(sigs, 1)
        /\ sigs > 0 => MeetsAt(sigs, -1)

\* The function has returned a value past the first unit whose hundredths
\* are not 0, for an estimator that is under the level already at R/100.
C7_Witness ==
    /\ pc = "sigs_done"
    /\ lower >= 1
    /\ fract >= 1
    /\ fract < FractSteps
    /\ ~MeetsAt(sigs, 0)

\* ------------------------------------------------------------------------
\* The parameter sets the enumeration leaves on the three lists
\* ------------------------------------------------------------------------

Admitted == w16_q \o w256_q \o wother_q

AdmittedSets == { Admitted[i] : i \in 1..Len(Admitted) }

NoFilters == d_restrict = 0 /\ h_restrict = 0 /\ a_restrict = 0

Widths == { 2^n : n \in 2..8 }

\* What a parameter set was enumerated as: W, the height of one Merkle
\* tree, D, A and K.
TupleOf(p) == <<p.w, p.h_merkle, p.d, p.a, p.k>>

\* The (W, h', D) in range whose hypertree is of a height in range and
\* costs less than the budget.
HyperInBudget ==
    { t \in Widths \X (2..Min(sec_level + 20, 31)) \X (1..29) :
        /\ t[3] * t[2] <= sec_level + 30
        /\ t[3] * t[2] >= num_sig - 5
        /\ cost_hypertree(t[3], cost_ots(sec_level, t[1]), t[2]) < sign_op }

\* The (W, h', D, A, K) in range whose hypertree and K FORS trees cost no
\* more than the budget.  A FORS tree costs at least 5, so the hypertree
\* of such a tuple costs less than the budget.
InBudget ==
    UNION { { <<t[1], t[2], t[3], ak[1], ak[2]>> :
                ak \in { x \in (1..29) \X (1..99) :
                    /\ cost_fors_tree(x[1]) <= sign_op
                    /\ cost_hypertree(t[3], cost_ots(sec_level, t[1]), t[2])
                         + x[2] * cost_fors_tree(x[1]) <= sign_op } } :
            t \in HyperInBudget }

\* Those of them that meet the security level.
Expected ==
    { t \in InBudget :
        check_sec_level(sec_rule, num_sig, t[3] * t[2], t[4], t[5],
                        sec_level) }

\* C3: every parameter set the enumeration admits has a signing cost
\* (sig_time) no greater than the budget (sign_op).
C3_WithinBudget ==
    \A i \in 1..Len(Admitted) : Admitted[i].sig_time <= sign_op

C9_Record ==
    \A i \in 1..Len(Admitted) :
        LET p == Admitted[i]
        IN  /\ p.h = p.d * p.h_merkle
            /\ p.h <= sec_level + 30
            /\ p.d >= 1 /\ p.d < 30
            /\ p.a >= 1 /\ p.a < 30
            /\ p.k >= 1 /\ p.k < 100
            /\ p.w \in Widths

\* C10: every parameter set admitted has d equal to the d filter, h' equal
\* to the h filter and k, the number of FORS trees, equal to the a filter,
\* for each filter that is not 0.
C10_Filters ==
    \A i \in 1..Len(Admitted) :
        LET p == Admitted[i]
        IN  /\ d_restrict # 0 => p.d = d_restrict
            /\ h_restrict # 0 => p.h_merkle = h_restrict
            /\ a_restrict # 0 => p.k = a_restrict


\* ------------------------------------------------------------------------
\* C11  malloc fails during the enumeration
\* ------------------------------------------------------------------------

\* Every field of p has been stored to.
AllFieldsSet(p) ==
    \A f \in DOMAIN p : p[f] # Indeterminate

\* C11: when malloc fails the enumeration stops at once: the failing turn
\* links nothing and moves no loop on, nothing is selected for output, and
\* no step follows; and every parameter set on a list has all its fields
\* stored.
C11_AbortIsClean ==
    /\ [](\A i \in 1..Len(Admitted) : AllFieldsSet(Admitted[i]))
    /\ [](pc = "aborted" => print_list = <<>>)
    /\ [][/\ pc # "aborted"
          /\ pc' = "aborted" => UNCHANGED <<queueVars, loopVars>>]_vars

\* malloc has failed in a run with the W=4 list filled, the W=16 list
\* still empty and widths left to enumerate.
C11_Witness ==
    /\ pc = "aborted"
    /\ Len(w256_q) >= 2
    /\ wother_q # <<>>
    /\ w16_q = <<>>
    /\ w = 16

\* ------------------------------------------------------------------------
\* C12  the overuse graph
\* ------------------------------------------------------------------------

\* C12: the lines of a graph are at consecutive hundredths from
\* num_sig - 1 on, each below max_s + 10, each with the estimate clipped at
\* sec_level and not below 10; the file is closed at the end of the range
\* or at the first x whose clipped estimate is below 10, and nothing is
\* written after that.
C12_Graph ==
    /\ [](\A i \in 1..Len(csv_file) :
            /\ csv_file[i].fx = 100 * (num_sig - 1) + (i - 1)
            /\ csv_file[i].fx < 100 * (max_s + 10)
            /\ csv_file[i].y = Min(EstimateAt(csv_file[i].fx), sec_level)
            /\ csv_file[i].y >= 10)
    /\ [](pc = "graph_closed" =>
            LET nxt == 100 * (num_sig - 1) + Len(csv_file)
            IN  \/ nxt >= 100 * (max_s + 10)
                \/ Min(EstimateAt(nxt), sec_level) < 10)
    /\ [](pc = "graph_skipped" => csv_file = <<>>)
    /\ [][pc # "graph_closed" /\ pc # "graph_skipped"]_vars

\* A graph was closed before the end of its range, after lines of which
\* one was clipped, at an estimate under 10 that is followed by estimates
\* of 10 or more.
C12_Witness ==
    /\ pc = "graph_closed"
    /\ Len(csv_file) >= 2
    /\ EstimateAt(csv_file[1].fx) > sec_level
    /\ csv_x < GraphEnd
    /\ \E xv \in (csv_x + 1)..(GraphEnd - 1) : EstimateAt(xv) >= MinListed

\* ------------------------------------------------------------------------
\* The claims about the series
\* ------------------------------------------------------------------------

\* The level check_sec_level was asked for, as a bound on the sum: the sum of a
\* finished call with exp(lambda) = ev is at the level exactly when it is
\* at most ev / 2^ser_level.
TargetOf(ev) == FxQuot(ev, 2^ser_level)

\* C13: check_sec_level returns true exactly when compute_sec_level is at
\* least the level asked for, to within 0.01 bits: where it returned 1 the
\* sum compute_sec_level ends with is at most the target times 2^0.01, and
\* where it returned 0 that sum is more than the target over 2^0.01.
\* 2^0.01 is taken as 1007/1000, a little more than it is.
C13_CheckMatchesEstimate ==
    \A i \in 1..Len(ser_hist) :
        LET r == ser_hist[i]
        IN /\ r.check \in { 0, 1 }
           /\ r.check = 1 =>
                ~FxLess(FxScale(TargetOf(r.exp_lambda), 1007),
                        FxScale(r.sum, 1000))
           /\ r.check = 0 =>
                FxLess(FxScale(TargetOf(r.exp_lambda), 1000),
                       FxScale(r.sum, 1007))

\* compute_sec_level's result for entry r of ser_hist is
\* log2(exp(lambda)) - log2(sum), so r's result is at most q's exactly
\* when r.sum / r.exp_lambda is at least q.sum / q.exp_lambda.
EstimateLeq(r, q) ==
    ~FxLess(FxMul(r.sum, q.exp_lambda), FxMul(q.sum, r.exp_lambda))

\* C14: for fixed H, T and K compute_sec_level does not increase as m goes
\* up by one.
C14_NonIncreasing ==
    \A i \in 1..(Len(ser_hist) - 1) :
        EstimateLeq(ser_hist[i + 1], ser_hist[i])

\* C15: compute_sec_level is well defined for every m from 0 to H + 40: the
\* index g, a 32-bit unsigned, never wraps before the loop stops.
C15_IndexNeverWraps == pc # "index_wrapped"

\* The parameter sets of class c in a sequence, in order.
OfClass(s, c) == SelectSeq(s, LAMBDA p : ClassOfSet(p) = c)

\* The parameter sets the loop has taken off the three sequences so far, in
\* the order it took them: the listed ones (ls) and the freed ones (fs), a
\* freed one after the n sets that were listed before it.
RECURSIVE Taken(_, _, _)
Taken(ls, fs, n) ==
    IF fs # <<>> /\ Head(fs).listed = n
    THEN <<Head(fs).p>> \o Taken(ls, Tail(fs), n)
    ELSE IF ls # <<>>
    THEN <<Head(ls)>> \o Taken(Tail(ls), fs, n + 1)
    ELSE <<>>

\* The W=16 sequence and the W in {4,256} sequence the loop was entered
\* with: what it has taken of the class, then what is left of it.
Entered16 == OfClass(Taken(print_list, freed, 0), 0) \o w16_q
Entered256 == OfClass(Taken(print_list, freed, 0), 1) \o w256_q

\* C16: the W=16 entries of the frontier depend only on the W=16 sequence
\* and the stop threshold, and the W in {4,256} entries do not depend on
\* the sequence of the other W: when the loop has ended, the frontier's
\* W=16 entries are what the loop lists when it is entered with the same
\* W=16 sequence and the two other sequences empty, and its W in {4,256}
\* entries are the ones the loop lists of that class when it is entered
\* with the same W=16 and W in {4,256} sequences and the sequence of the
\* other W empty (no turn of the loop changes the sequences it was entered
\* with).
C16_ClassesIndependent ==
    /\ [][Entered16' = Entered16 /\ Entered256' = Entered256]_vars
    /\ [](pc = "report" =>
            /\ OfClass(print_list, 0) =
                 RunLoop(Entered16, <<>>, <<>>, [j \in 0..2 |-> 0],
                         [j \in 0..2 |-> FALSE], max_s)
            /\ OfClass(print_list, 1) =
                 OfClass(RunLoop(Entered16, Entered256, <<>>,
                                 [j \in 0..2 |-> 0], [j \in 0..2 |-> FALSE],
                                 max_s), 1))

\* An entry of the other W is listed, then one of W=16, then one of
\* W in {4,256}.
C16_Witness ==
    /\ pc = "report"
    /\ Len(print_list) = 3
    /\ ClassOfSet(print_list[1]) = 2
    /\ ClassOfSet(print_list[2]) = 0
    /\ ClassOfSet(print_list[3]) = 1

\* C17: for every num_sig >= 1 the d loop skips a tuple for its height
\* exactly when h < num_sig - 5 as integers: a turn of the loop that is in
\* range and passes the d filter steps to the next d without entering the
\* a loop exactly then; so without filters every tuple in range that is
\* within the budget and meets the security level is admitted, whatever
\* num_sig.
C17_HeightPrune ==
    /\ [][(/\ pc = "d_loop"
           /\ h <= sec_level + 30 /\ d < 30
           /\ d_restrict = 0 \/ d = d_restrict)
          => (d' = d + 1 <=> h < num_sig - 5)]_vars
    /\ []((pc = "enumerated" /\ NoFilters) =>
            Expected \subseteq { TupleOf(p) : p \in AdmittedSets })

\* C18: compute_sigs_at_sec_level terminates for every level that is not
\* negative: the scan by integers ends, then the scan by hundredths, and
\* the function returns.
C18_ScanTerminates == <>(pc = "sigs_done")

\* C19: each turn of the selection loop takes exactly one parameter set
\* off the sequences, the head of one that is not empty; no head of a
\* sequence that is not empty has a smaller signature size, and the head
\* of no easier class (W=16 before W in {4,256} before the rest) has the
\* same signature size.
C19_TakesSmallestHead ==
    [][(pc = "select" /\ (w16_q # <<>> \/ w256_q # <<>> \/ wother_q # <<>>))
       => LET q == <<w16_q, w256_q, wother_q>>
              nq == <<w16_q', w256_q', wother_q'>>
          IN \E c \in 1..3 :
               /\ q[c] # <<>>
               /\ nq[c] = Tail(q[c])
               /\ \A j \in 1..3 :
                    /\ j # c => nq[j] = q[j]
                    /\ q[j] # <<>> =>
                         Head(q[c]).sig_size <= Head(q[j]).sig_size
                    /\ (q[j] # <<>> /\ j < c) =>
                         Head(q[c]).sig_size < Head(q[j]).sig_size
               /\ \/ print_list' = Append(print_list, Head(q[c]))
                  \/ /\ Len(freed') = Len(freed) + 1
                     /\ freed'[Len(freed')].p = Head(q[c])]_vars

\* The heads of the three sequences had the same signature size: the
\* first turn took the W=16 one, the second the W in {4,256} one, and the
\* one of the other W is still waiting.
C19_Witness ==
    /\ pc = "select"
    /\ Len(print_list) = 2
    /\ ClassOfSet(print_list[1]) = 0
    /\ ClassOfSet(print_list[2]) = 1
    /\ print_list[2].sig_size = print_list[1].sig_size
    /\ wother_q # <<>>
    /\ Head(wother_q).sig_size = print_list[1].sig_size

\* The number of elements my_sort has inserted into the bins.
Inserted == Len(input) - Len(list)

\* Bit i of the whole number n.
Bit(n, i) == (n \div 2^i) % 2

\* C20: after each insertion, while fewer than 2^num_bin elements have
\* been inserted, every bin i is either empty or holds a best-first sorted
\* run of exactly 2^i elements, and the bins that are not empty are the
\* 1-bits of the number of elements inserted.
C20_Bins ==
    (pc \in { "sort_insert", "sort_done" } /\ Inserted < 2^num_bin) =>
        \A i \in 0..(num_bin - 1) :
            IF Bit(Inserted, i) = 1
            THEN Len(bins[i]) = 2^i /\ BestFirst(bins[i])
            ELSE bins[i] = <<>>

\* Five elements that were not in order have been inserted into NUM_BIN
\* bins, after two carries out of bin 0 and one out of bin 1.
C20_Witness ==
    /\ pc = "sort_insert"
    /\ num_bin = NUM_BIN
    /\ Inserted = 5
    /\ ~BestFirst(input)
    /\ Len(bins[2]) = 4 /\ Len(bins[0]) = 1
    /\ bins[2] # SubSeq(input, 1, 4)

\* ------------------------------------------------------------------------
\* C21  my_sort with more elements than the bins are made for
\* ------------------------------------------------------------------------

\* The elements in bins i..n-1, bin after bin.
RECURSIVE BinItems(_, _, _)
BinItems(b, i, n) == IF i = n THEN <<>> ELSE b[i] \o BinItems(b, i + 1, n)

\* C21: my_sort works when it receives more elements than 2^num_bin: a
\* turn of the loop that finds every bin taken leaves the merged run, the
\* elements of all the bins and the new one in best-first order, in the
\* last bin and the other bins empty; at every turn the bins and the rest
\* of the list hold every input element exactly once, each bin best-first;
\* and the list returned is a best-first permutation of the input.
C21_OverflowKept ==
    /\ [][(/\ pc = "sort_insert" /\ list # <<>>
           /\ \A i \in 0..(num_bin - 1) : bins[i] # <<>>)
          => /\ \A i \in 0..(num_bin - 2) : bins'[i] = <<>>
             /\ IsPermutation(bins'[num_bin - 1],
                              BinItems(bins, 0, num_bin) \o <<Head(list)>>)
             /\ BestFirst(bins'[num_bin - 1])]_vars
    /\ [](pc = "sort_insert" =>
            /\ IsPermutation(BinItems(bins, 0, num_bin) \o list, input)
            /\ \A i \in 0..(num_bin - 1) : BestFirst(bins[i]))
    /\ [](pc = "sort_done" =>
            /\ IsPermutation(sorted, input)
            /\ BestFirst(sorted))

\* A sort of more than 2^num_bin elements, not in order on entry, has
\* returned, and the last bin held a run of 2^num_bin elements or more: the
\* ripple loop ran past the last bin.
C21_Witness ==
    /\ pc = "sort_done"
    /\ Len(input) > 2^num_bin
    /\ Len(bins[num_bin - 1]) >= 2^num_bin
    /\ ~BestFirst(input)
    /\ sorted # input

\* ------------------------------------------------------------------------
\* C22  where each allocated parameter set is
\* ------------------------------------------------------------------------

\* The objects on the list that starts at object x, following the link
\* fields for at most fuel steps.
RECURSIVE ChainFrom(_, _, _)
ChainFrom(lnk, x, fuel) ==
    IF x = 0 \/ fuel = 0 THEN <<>>
    ELSE <<x>> \o ChainFrom(lnk, lnk[x], fuel - 1)

Chain(x) == ChainFrom(link, x, Len(link) + 1)

\* The class sequence c: the list of do_search, except while my_sort is
\* working on it (the variable is assigned when my_sort returns).
ClassChain(c) ==
    IF pc = "own_sort" /\ ptr.sorting = c THEN <<>>
    ELSE Chain(ptr[QueueName(c)])

\* The frontier: the rows already printed and the rest of print_list.
Frontier == ptr.reported \o Chain(ptr.print_list)

\* How often object n is on sequence s.
Times(s, n) == Cardinality({ i \in 1..Len(s) : s[i] = n })

\* The runs in bins i..NUM_BIN-1, one after the other.
RECURSIVE BinChains(_)
BinChains(i) ==
    IF i = NUM_BIN THEN <<>>
    ELSE IF ptr.bins[i] = 0 THEN BinChains(i + 1)
    ELSE Chain(ptr.bins[i]) \o BinChains(i + 1)

\* The objects on the three class sequences, on the rest of the list being
\* sorted, in the bins and on the frontier, place after place.
Placed ==
    ClassChain(0) \o ClassChain(1) \o ClassChain(2) \o Chain(ptr.list)
      \o BinChains(0) \o Frontier

\* Every object is in exactly one place, the released objects being one
\* more place: the places hold as many objects as were created, and every
\* created object is in one of them.
EachInOnePlace ==
    /\ Len(Placed) + Cardinality(released) = Len(cand)
    /\ { Placed[i] : i \in 1..Len(Placed) } \cup released = 1..Len(cand)

\* The object the selection loop takes in this turn and its class, worked
\* out from the three class sequences.
TurnPick ==
    LET fields(s) == [i \in 1..Len(s) |-> cand[s[i]]]
        pick == PickWinner(fields(ClassChain(0)), fields(ClassChain(1)),
                           fields(ClassChain(2)))
    IN  [winner |-> pick.winner, p |-> Head(ClassChain(pick.winner))]

\* C22: at every point of a search each created parameter set is in
\* exactly one place: one class sequence, the list being sorted or one bin,
\* the frontier, or released.  A parameter set that fails the cutoff or
\* the overuse filter is released in that turn and is not on the frontier,
\* and only such parameter sets are released; a released one stays
\* released, no field of it is read or written afterwards, and no link of
\* an object that is not released points to it; the report loop prints
\* entries of the frontier and leaves the frontier as it is.
C22_Ownership ==
    /\ [](pc \in {"own_enum", "own_aborted", "own_sort", "own_select",
                  "own_report", "own_done"}
            => /\ EachInOnePlace
               /\ ~stray
               /\ \A n \in 1..Len(cand) :
                     n \notin released => link[n] \notin released)
    /\ [][(/\ pc = "own_select"
           /\ \E c \in 0..2 : ClassChain(c) # <<>>)
          => \A t \in {TurnPick} :
               \A fails \in {cutoff[t.winner]
                             \/ cand[t.p].overuse <= min_sec_level[t.winner]} :
                 /\ Times(ClassChain(t.winner)', t.p) = 0
                 /\ fails => /\ released' = released \cup {t.p}
                             /\ Frontier' = Frontier
                 /\ ~fails => /\ released' = released
                              /\ Frontier' = Append(Frontier, t.p)]_vars
    /\ [][pc # "own_select" => (released' = released)]_vars
    /\ [][(pc = "own_report" \/ pc = "own_done")
          => (Frontier' = Frontier)]_vars

\* A search of three parameter sets has ended: two were released and one
\* is on the frontier and was printed; the released ones were of W=16 and
\* were pushed on their list in an order my_sort had to change.
C22_Witness ==
    /\ pc = "own_done"
    /\ Len(cand) = 3
    /\ Cardinality(released) = 2
    /\ Len(ptr.reported) = 1
    /\ \E x \in released : \E y \in released :
          /\ x < y
          /\ cand[x].w = 16 /\ cand[y].w = 16
          /\ cand[x].sig_size < cand[y].sig_size

\* ------------------------------------------------------------------------
\* C23  min_sec_level and cutoff are ordered by class
\* ------------------------------------------------------------------------

\* C23: at every turn of the selection loop min_sec_level[0] <=
\* min_sec_level[1] <= min_sec_level[2] and cutoff[0] implies cutoff[1]
\* implies cutoff[2]; no turn lowers a min_sec_level or clears a cutoff;
\* and a turn that lists a parameter set of class c leaves min_sec_level
\* and cutoff of the classes before c as they are, and raises those of c
\* and the later classes to the overuse value and the stop it gives.
C23_TrackersOrdered ==
    /\ []((pc = "select" \/ pc = "report") =>
            /\ min_sec_level[0] <= min_sec_level[1]
            /\ min_sec_level[1] <= min_sec_level[2]
            /\ cutoff[0] => cutoff[1]
            /\ cutoff[1] => cutoff[2])
    /\ [][(pc = "select") =>
            \A j \in 0..2 : /\ min_sec_level'[j] >= min_sec_level[j]
                            /\ cutoff[j] => cutoff'[j]]_vars
    /\ [][(pc = "select" /\ print_list' # print_list) =>
            \A p \in {print_list'[Len(print_list')]} :
              \A j \in 0..2 :
                IF j < ClassOfSet(p)
                THEN /\ min_sec_level'[j] = min_sec_level[j]
                     /\ cutoff'[j] = cutoff[j]
                ELSE /\ min_sec_level'[j] =
                            Max(min_sec_level[j], Overuse(p))
                     /\ cutoff'[j] =
                            (cutoff[j] \/ DoCutoff(Overuse(p), max_s))]_vars

\* Three parameter sets were listed, none of W=16: min_sec_level differs
\* from class to class, and listing has stopped for the last class only.
C23_Witness ==
    /\ pc = "select"
    /\ Len(print_list) = 3
    /\ min_sec_level[0] < min_sec_level[1]
    /\ min_sec_level[1] < min_sec_level[2]
    /\ ~cutoff[0] /\ ~cutoff[1] /\ cutoff[2]

=========================================================================
